---- MODULE Spec2Model ----
(***************************************************************************)
(* A model of tableau_migration.py: the TableauMigrator class and main().  *)
(* The Tableau servers, the file system and the command line are the       *)
(* environment: every call to them either returns or raises, and the state *)
(* they hold (source projects and workbooks, target projects and           *)
(* workbooks, sessions, the staging directory) is part of the model.       *)
(***************************************************************************)
EXTENDS Integers, Sequences, FiniteSets, TLC

VARIABLES
    args,               \* the parsed command line (main, lines 359-367)
    faults,             \* TRUE when calls to the servers may raise
    source_projects,    \* projects of the source site, in listing order
    source_workbooks,   \* workbooks of the source site, in listing order
    target_projects,    \* projects of the target site, in listing order
    target_workbooks,   \* workbooks published on the target site
    source_server,      \* self.source_server is set (not None)
    target_server,      \* self.target_server is set (not None)
    source_session,     \* "none", "in" (signed in) or "out" (signed out)
    target_session,
    temp_dir,           \* the directory self.temp_dir exists
    staged,             \* ids w of the files workbook_<w>.twbx in temp_dir
    pc,                 \* position of the run
    project_map,        \* migrate_site's dict, as a sequence of <<key, value>>
    remaining_projects, \* migrate_site's list of pending child projects
    projects_handled,   \* the projects handled in the current pass
    i,                  \* index of the running for loop over projects
    passes,             \* passes of the while loop begun in this run
    todo,               \* the (source id, target id) pairs still to migrate
    cur,                \* migrate_project's (source project, target id)
    workbooks,          \* migrate_project's list of workbooks
    w,                  \* index of the running for loop over workbooks
    calls,              \* history: the calls issued to the collaborators
    errors,             \* history: the messages given to logger.error
    reported,           \* history: the counts given to logger.info (line 220)
    raised,             \* the exception that is unwinding main(), or "none"
    exit_status,        \* the status of sys.exit, 0 when not called
    run,                \* "first" or "second" run against the same servers
    prev_map,           \* history: project_map at the end of the first run
    prev_unresolved,    \* history: remaining_projects at the end of the first run
    invocations         \* calls of ensure_project_exists in flight elsewhere

vars == <<args, faults, source_projects, source_workbooks, target_projects,
          target_workbooks, source_server, target_server, source_session,
          target_session, temp_dir, staged, pc, project_map,
          remaining_projects, projects_handled, i, passes, todo, cur,
          workbooks, w, calls, errors, reported, raised, exit_status, run,
          prev_map, prev_unresolved, invocations>>

\* Python's None for an id; the ids the servers give are never falsy.
None == 0

\* Bounds of the model: the source projects of a resolution, of a site
\* migration and of a run of main(), and the source workbooks of a site
\* migration and of a run of main().
MaxProjects == 3
SiteProjects == 2
MainProjects == 2
MaxWorkbooks == 2
MainWorkbooks == 1

Names == {"Eng", "Data"}

\* The names of the source projects of a site whose names all differ.
ProjectNames == <<"Eng", "Data", "Sales", "Ops", "Web">>

\* The names of the source workbooks, by workbook id.
WorkbookNames == <<"Dash", "Sales", "Costs", "Plan">>

Actions == {"list_sites", "list_projects", "list_workbooks",
            "migrate_workbook", "migrate_project", "migrate_site"}

Listing == {"list_sites", "list_projects", "list_workbooks"}

(***************************************************************************)
(* The inputs: a source site is a list of projects whose ids are their     *)
(* places in the list, each with a name and a parent reference that is     *)
(* None, the id of a project of the list (itself included) or the id n+1   *)
(* of no project; and a list of workbooks, each owned by a project.        *)
(***************************************************************************)
SourceForests(n) ==
    { [k \in 1..n |-> [id |-> k, name |-> nm[k], parent_id |-> pr[k]]] :
        nm \in [1..n -> Names], pr \in [1..n -> 0..(n + 1)] }

SourceSites(max) == UNION { SourceForests(n) : n \in 1..max }

NamedForests(n) ==
    { [k \in 1..n |-> [id |-> k, name |-> ProjectNames[k],
                        parent_id |-> pr[k]]] :
        pr \in [1..n -> 0..(n + 1)] }

NamedSites(max) == UNION { NamedForests(n) : n \in 1..max }

WorkbookLists(n, max) ==
    UNION { { [k \in 1..m |-> [id |-> 9 + k, name |-> WorkbookNames[k],
                                project_id |-> ow[k]]] :
                ow \in [1..m -> 1..n] } : m \in 0..max }

\* The id the target server gives to the next project it creates.
NewTargetId(tp) == 100 + Len(tp) + 1

(***************************************************************************)
(* project_map: a Python dict, kept as the sequence of its items in        *)
(* insertion order.                                                        *)
(***************************************************************************)
MapKeys(m) == { m[k][1] : k \in 1..Len(m) }

MapHas(m, key) == key \in MapKeys(m)

\* A read that hands back the source id in place of the mapped target id.
MapGetSource(m, key) == key

MapGet(m, key) ==
    IF MapHas(m, key)
    THEN m[CHOOSE k \in 1..Len(m) : m[k][1] = key][2]
    ELSE None

MapPut(m, key, value) ==
    IF MapHas(m, key)
    THEN [k \in 1..Len(m) |-> IF m[k][1] = key THEN <<key, value>> ELSE m[k]]
    ELSE Append(m, <<key, value>>)

MapValues(m) == { m[k][2] : k \in 1..Len(m) }

\* One entry of the history of calls.
Call(op, name, id, arg, ok) ==
    [op |-> op, name |-> name, id |-> id, arg |-> arg, ok |-> ok]

\* The outcomes a call to a collaborator can have.
Outcomes == IF faults THEN {"ok", "fail"} ELSE {"ok"}

(***************************************************************************)
(* ensure_project_exists (lines 147-170): list the target projects named   *)
(* project_name, return the first whose parent matches, else create one.   *)
(***************************************************************************)
\* A lookup that compares the id of the project, not its parent.
ParentMatchesById(parent_id, project) ==
    \/ parent_id = None /\ project.parent_id = None
    \/ parent_id # None /\ project.id = parent_id

\* A lookup that never matches a top-level project.
ParentMatchesNoTop(parent_id, project) ==
    parent_id # None /\ project.parent_id = parent_id

ParentMatches(parent_id, project) ==
    \/ parent_id = None /\ project.parent_id = None
    \/ parent_id # None /\ project.parent_id = parent_id

\* A request whose name filter is dropped: every project of the target.
MatchingProjectsAny(tp, project_name) == tp

MatchingProjects(tp, project_name) ==
    SelectSeq(tp, LAMBDA p : p.name = project_name)

FindExisting(tp, project_name, parent_id) ==
    LET found == SelectSeq(MatchingProjects(tp, project_name),
                           LAMBDA p : ParentMatches(parent_id, p))
    IN  IF found = <<>> THEN None ELSE found[1].id

\* The outcomes of one call of ensure_project_exists.
EnsureOutcomes(tp, project_name, parent_id) ==
    IF ~faults THEN {"ok"}
    ELSE IF FindExisting(tp, project_name, parent_id) # None
         THEN {"ok", "lookup_fails"}
         ELSE {"ok", "lookup_fails", "create_fails"}

\* A create whose failure goes unnoticed: the project that was to be created
\* is returned although the target does not hold it.
ensure_project_unconfirmed(tp, project_name, parent_id, out) ==
    LET existing == FindExisting(tp, project_name, parent_id)
        lookup   == Call("lookup", project_name, None, parent_id,
                         out # "lookup_fails")
        create   == Call("create", project_name, NewTargetId(tp), parent_id,
                         out # "create_fails")
    IN  IF out = "lookup_fails"
        THEN [ok |-> FALSE, target |-> tp, id |-> None, calls |-> <<lookup>>]
        ELSE IF existing # None
        THEN [ok |-> TRUE, target |-> tp, id |-> existing, calls |-> <<lookup>>]
        ELSE [ok |-> TRUE,
              target |-> IF out = "create_fails" THEN tp
                         ELSE Append(tp, [id |-> NewTargetId(tp),
                                          name |-> project_name,
                                          parent_id |-> parent_id]),
              id |-> NewTargetId(tp), calls |-> <<lookup, create>>]

\* The result: the target projects after the call, the id of the project
\* returned (None when the call raised), and the calls issued.
ensure_project_exists(tp, project_name, parent_id, out) ==
    LET existing == FindExisting(tp, project_name, parent_id)
        lookup   == Call("lookup", project_name, None, parent_id,
                         out # "lookup_fails")
        create   == Call("create", project_name,
                         IF out = "create_fails" THEN None ELSE NewTargetId(tp),
                         parent_id, out # "create_fails")
    IN  IF out = "lookup_fails"
        THEN [ok |-> FALSE, target |-> tp, id |-> None, calls |-> <<lookup>>]
        ELSE IF existing # None
        THEN [ok |-> TRUE, target |-> tp, id |-> existing, calls |-> <<lookup>>]
        ELSE IF out = "create_fails"
        THEN [ok |-> FALSE, target |-> tp, id |-> None,
              calls |-> <<lookup, create>>]
        ELSE [ok |-> TRUE,
              target |-> Append(tp, [id |-> NewTargetId(tp),
                                     name |-> project_name,
                                     parent_id |-> parent_id]),
              id |-> NewTargetId(tp), calls |-> <<lookup, create>>]

(***************************************************************************)
(* Groups of variables.                                                    *)
(***************************************************************************)
inputs == <<args, faults, source_projects, source_workbooks>>

sessions == <<source_server, target_server, source_session, target_session>>

staging == <<temp_dir, staged>>

resolution == <<project_map, remaining_projects, projects_handled, i, passes>>

content == <<todo, cur, workbooks, w>>

earlier == <<run, prev_map, prev_unresolved, invocations>>

\* An exception leaves the try block of main() for its finally clause.
Raise(exc) ==
    /\ raised' = exc
    /\ pc' = "finally"

(***************************************************************************)
(* main(), lines 395-441: the try block runs the action of the command     *)
(* line.  Every action begins by connecting to the source server, except   *)
(* --migrate-workbook without --source-project-id, which exits.            *)
(***************************************************************************)
main_list ==
    /\ pc = "main"
    /\ args.action \in Listing
    /\ pc' = "connect_source"
    /\ UNCHANGED <<inputs, sessions, staging, resolution, content, earlier,
                   target_projects, target_workbooks, calls, errors, reported,
                   raised, exit_status>>

\* --migrate-workbook that goes on without --source-project-id.
main_migrate_workbook_unchecked ==
    /\ pc = "main"
    /\ args.action = "migrate_workbook"
    /\ pc' = "connect_source"
    /\ UNCHANGED <<inputs, sessions, staging, resolution, content, earlier,
                   target_projects, target_workbooks, calls, errors, reported,
                   raised, exit_status>>

main_migrate_workbook ==
    /\ pc = "main"
    /\ args.action = "migrate_workbook"
    /\ IF args.source_project_id = None
       THEN /\ errors' = Append(errors, [msg |-> "source-project-id",
                                         count |-> 0, ids |-> {}])
            /\ exit_status' = 1
            /\ Raise("SystemExit")
       ELSE /\ pc' = "connect_source"
            /\ UNCHANGED <<errors, exit_status, raised>>
    /\ UNCHANGED <<inputs, sessions, staging, resolution, content, earlier,
                   target_projects, target_workbooks, calls, reported>>

main_migrate_project ==
    /\ pc = "main"
    /\ args.action = "migrate_project"
    /\ pc' = "connect_source"
    /\ UNCHANGED <<inputs, sessions, staging, resolution, content, earlier,
                   target_projects, target_workbooks, calls, errors, reported,
                   raised, exit_status>>

main_migrate_site ==
    /\ pc = "main"
    /\ args.action = "migrate_site"
    /\ pc' = "connect_source"
    /\ UNCHANGED <<inputs, sessions, staging, resolution, content, earlier,
                   target_projects, target_workbooks, calls, errors, reported,
                   raised, exit_status>>

(***************************************************************************)
(* connect_to_source, lines 60-81.  Without a usable credential it raises  *)
(* before the server object is made; the server object is assigned before  *)
(* sign_in, which the server may reject.                                   *)
(***************************************************************************)
connect_to_source ==
    /\ pc = "connect_source"
    /\ ~source_server
    /\ IF ~args.source_cred
       THEN /\ Raise("ValueError")
            /\ UNCHANGED <<source_server, source_session, calls>>
       ELSE \E out \in Outcomes :
            /\ source_server' = TRUE
            /\ calls' = Append(calls, Call("sign_in", "source", None, None,
                                            out = "ok"))
            /\ IF out = "ok"
               THEN /\ source_session' = "in"
                    /\ pc' = IF args.action \in Listing
                             THEN "list" ELSE "connect_target"
                    /\ UNCHANGED raised
               ELSE /\ Raise("SignInError")
                    /\ UNCHANGED source_session
    /\ UNCHANGED <<inputs, target_server, target_session, staging, resolution,
                   content, earlier, target_projects, target_workbooks, errors,
                   reported, exit_status>>

\* connect_to_target, lines 83-104.
connect_to_target ==
    /\ pc = "connect_target"
    /\ ~target_server
    /\ IF ~args.target_cred
       THEN /\ Raise("ValueError")
            /\ UNCHANGED <<target_server, target_session, calls>>
       ELSE \E out \in Outcomes :
            /\ target_server' = TRUE
            /\ calls' = Append(calls, Call("sign_in", "target", None, None,
                                            out = "ok"))
            /\ IF out = "ok"
               THEN /\ target_session' = "in"
                    /\ pc' = CASE args.action = "migrate_workbook" -> "workbook"
                               [] args.action = "migrate_project" -> "project"
                               [] OTHER -> "list_projects"
                    /\ UNCHANGED raised
               ELSE /\ Raise("SignInError")
                    /\ UNCHANGED target_session
    /\ UNCHANGED <<inputs, source_server, source_session, staging, resolution,
                   content, earlier, target_projects, target_workbooks, errors,
                   reported, exit_status>>

(***************************************************************************)
(* The listing actions, lines 397-417: one paged listing of the source     *)
(* (list_source_sites, list_projects or list_workbooks), then the prints.  *)
(***************************************************************************)
list_source ==
    /\ pc = "list"
    /\ \E out \in Outcomes :
        /\ calls' = Append(calls, Call("list", args.action, None,
                                       args.source_project_id, out = "ok"))
        /\ IF out = "ok"
           THEN pc' = "finally" /\ UNCHANGED raised
           ELSE Raise("ServerError")
    /\ UNCHANGED <<inputs, sessions, staging, resolution, content, earlier,
                   target_projects, target_workbooks, errors, reported,
                   exit_status>>

(***************************************************************************)
(* migrate_site, lines 222-278.                                            *)
(***************************************************************************)
\* Lines 234-245: switch the sites where needed, list the source projects,
\* start with an empty project_map.
migrate_site_list_projects ==
    /\ pc = "list_projects"
    /\ \E out \in Outcomes :
        /\ calls' = Append(calls, Call("list", "projects", None, None,
                                       out = "ok"))
        /\ IF out = "ok"
           THEN /\ pc' = "root_pass"
                /\ project_map' = <<>>
                /\ i' = 1
                /\ UNCHANGED raised
           ELSE /\ Raise("ServerError")
                /\ UNCHANGED <<project_map, i>>
    /\ UNCHANGED <<inputs, sessions, staging, remaining_projects,
                   projects_handled, passes, content, earlier, target_projects,
                   target_workbooks, errors, reported, exit_status>>

\* The history entry of an assignment to project_map (lines 251 and 263).
Recorded(r, project) ==
    IF r.ok THEN <<Call("record", project.name, project.id, r.id, TRUE)>>
    ELSE <<>>

\* Line 249: a project without parent is a top-level project.
IsTopLevel(project) == project.parent_id = None

\* One iteration of the first pass, lines 248-251.
migrate_site_root_pass ==
    /\ pc = "root_pass"
    /\ i <= Len(source_projects)
    /\ LET project == source_projects[i] IN
       IF IsTopLevel(project)
       THEN \E out \in EnsureOutcomes(target_projects, project.name, None) :
            LET r == ensure_project_exists(target_projects, project.name,
                                           None, out) IN
            /\ target_projects' = r.target
            /\ calls' = calls \o r.calls \o Recorded(r, project)
            /\ IF r.ok
               THEN /\ project_map' = MapPut(project_map, project.id, r.id)
                    /\ i' = i + 1
                    /\ UNCHANGED <<pc, raised>>
               ELSE /\ Raise("ServerError")
                    /\ UNCHANGED <<project_map, i>>
       ELSE /\ i' = i + 1
            /\ UNCHANGED <<target_projects, calls, project_map, pc, raised>>
    /\ UNCHANGED <<inputs, sessions, staging, remaining_projects,
                   projects_handled, passes, content, earlier,
                   target_workbooks, errors, reported, exit_status>>

\* Line 255: the child projects are the remaining projects.
migrate_site_children ==
    /\ pc = "root_pass"
    /\ i > Len(source_projects)
    /\ remaining_projects' =
           SelectSeq(source_projects, LAMBDA p : ~IsTopLevel(p))
    /\ pc' = "pending"
    /\ UNCHANGED <<inputs, sessions, staging, project_map, projects_handled,
                   i, passes, content, earlier, target_projects,
                   target_workbooks, calls, errors, reported, raised,
                   exit_status>>

\* Lines 256-257: the while test, and the start of a pass.
migrate_site_pass_begin ==
    /\ pc = "pending"
    /\ IF remaining_projects # <<>>
       THEN /\ projects_handled' = <<>>
            /\ i' = 1
            /\ passes' = passes + 1
            /\ pc' = "pass"
       ELSE /\ pc' = "resolved"
            /\ UNCHANGED <<projects_handled, i, passes>>
    /\ UNCHANGED <<inputs, sessions, staging, project_map, remaining_projects,
                   content, earlier, target_projects, target_workbooks, calls,
                   errors, reported, raised, exit_status>>

\* A pass that handles a project whether or not its parent is mapped.
ParentCreatedAlways(map, project) == TRUE

\* A pass that handles the children of top-level projects only.
ParentCreatedTopLevel(map, project) ==
    /\ MapHas(map, project.parent_id)
    /\ source_projects[project.parent_id].parent_id = None

\* A pass that takes any parent listed in the source for a mapped one.
ParentCreatedListed(map, project) ==
    \/ MapHas(map, project.parent_id)
    \/ project.parent_id \in 1..Len(source_projects)

\* Line 259: the parent of the project has been mapped.
ParentCreated(map, project) == MapHas(map, project.parent_id)

\* One iteration of a pass over the remaining projects, lines 258-264.
migrate_site_pass_step ==
    /\ pc = "pass"
    /\ i <= Len(remaining_projects)
    /\ LET project == remaining_projects[i] IN
       IF ParentCreated(project_map, project)
       THEN LET target_parent_id == MapGet(project_map, project.parent_id) IN
            \E out \in EnsureOutcomes(target_projects, project.name,
                                      target_parent_id) :
            LET r == ensure_project_exists(target_projects, project.name,
                                           target_parent_id, out) IN
            /\ target_projects' = r.target
            /\ calls' = calls \o r.calls \o Recorded(r, project)
            /\ IF r.ok
               THEN /\ project_map' = MapPut(project_map, project.id, r.id)
                    /\ projects_handled' = Append(projects_handled, project)
                    /\ i' = i + 1
                    /\ UNCHANGED <<pc, raised>>
               ELSE /\ Raise("ServerError")
                    /\ UNCHANGED <<project_map, projects_handled, i>>
       ELSE /\ i' = i + 1
            /\ UNCHANGED <<target_projects, calls, project_map,
                           projects_handled, pc, raised>>
    /\ UNCHANGED <<inputs, sessions, staging, remaining_projects, passes,
                   content, earlier, target_workbooks, errors, reported,
                   exit_status>>

\* Line 268: the message names the number of remaining projects only.
HierarchyError(remaining) ==
    [msg |-> "hierarchy", count |-> Len(remaining), ids |-> {}]

\* A loop that keeps the handled projects pending.
NotHandledAll(remaining, handled) == remaining

\* A loop that gives up after one pass.
NotHandledNone(remaining, handled) == <<>>

\* Line 272: the projects of the pass that were not handled.
NotHandled(remaining, handled) ==
    SelectSeq(remaining,
              LAMBDA p : \A k \in 1..Len(handled) : handled[k] # p)

\* The end of a pass, lines 266-272.
migrate_site_pass_end ==
    /\ pc = "pass"
    /\ i > Len(remaining_projects)
    /\ IF projects_handled = <<>>
       THEN /\ errors' = Append(errors, HierarchyError(remaining_projects))
            /\ pc' = "resolved"
            /\ UNCHANGED remaining_projects
       ELSE /\ remaining_projects' =
                   NotHandled(remaining_projects, projects_handled)
            /\ pc' = "pending"
            /\ UNCHANGED errors
    /\ UNCHANGED <<inputs, sessions, staging, project_map, projects_handled,
                   i, passes, content, earlier, target_projects,
                   target_workbooks, calls, reported, raised, exit_status>>

\* A content loop over every listed project, mapped or not.
migrate_site_content_listed ==
    /\ pc = "resolved"
    /\ todo' = [k \in 1..Len(source_projects) |->
                  <<source_projects[k].id,
                    MapGet(project_map, source_projects[k].id)>>]
    /\ pc' = "migrate"
    /\ UNCHANGED <<inputs, sessions, staging, resolution, cur, workbooks, w,
                   earlier, target_projects, target_workbooks, calls, errors,
                   reported, raised, exit_status>>

\* Line 275: the items of project_map, in insertion order, are migrated.
migrate_site_content ==
    /\ pc = "resolved"
    /\ todo' = project_map
    /\ pc' = "migrate"
    /\ UNCHANGED <<inputs, sessions, staging, resolution, cur, workbooks, w,
                   earlier, target_projects, target_workbooks, calls, errors,
                   reported, raised, exit_status>>

(***************************************************************************)
(* migrate_project, lines 198-220, called by migrate_site for each item of *)
(* project_map (line 276) and by main() for --migrate-project (line 438).  *)
(***************************************************************************)
\* The arguments of the call that comes next.
NextProject ==
    IF pc = "project" THEN <<args.item, args.target_project_id>>
    ELSE Head(todo)

SourceProject(source_project_id) ==
    SelectSeq(source_projects, LAMBDA p : p.id = source_project_id)

\* list_workbooks without its filter: every workbook of the site.
ProjectWorkbooksAll(project_id) == source_workbooks

\* list_workbooks with its filter (lines 136-142): the workbooks of a project.
ProjectWorkbooks(project_id) ==
    SelectSeq(source_workbooks, LAMBDA b : b.project_id = project_id)

\* A caller that never passes the target project on.
NoTargetProjectAlways(target_project_id) == TRUE

\* Line 209: no target project was given.
NoTargetProject(target_project_id) == target_project_id = None

\* The outcomes of the head of migrate_project, lines 205-214.
ProjectOutcomes(source_project_id, target_project_id) ==
    IF SourceProject(source_project_id) = <<>> THEN {"get_fails"}
    ELSE IF ~faults THEN {"ok"}
    ELSE {"ok", "get_fails", "list_fails"}
         \cup (IF NoTargetProject(target_project_id)
               THEN EnsureOutcomes(target_projects,
                                   SourceProject(source_project_id)[1].name,
                                   SourceProject(source_project_id)[1].parent_id)
               ELSE {})

migrate_project ==
    /\ \/ pc = "migrate" /\ todo # <<>>
       \/ pc = "project"
    /\ LET source_project_id == NextProject[1]
           target_project_id == NextProject[2]
           get(ok) == Call("get", "project", source_project_id, None, ok)
           list(ok) == Call("list", "workbooks", None, source_project_id, ok)
       IN
       \E out \in ProjectOutcomes(source_project_id, target_project_id) :
       IF out = "get_fails"
       THEN /\ calls' = Append(calls, get(FALSE))
            /\ Raise("ServerError")
            /\ UNCHANGED <<target_projects, cur, workbooks, w>>
       ELSE
       LET source_project == SourceProject(source_project_id)[1]
           r == IF NoTargetProject(target_project_id)
                THEN ensure_project_exists(target_projects, source_project.name,
                         source_project.parent_id,
                         IF out = "list_fails" THEN "ok" ELSE out)
                ELSE [ok |-> TRUE, target |-> target_projects,
                      id |-> target_project_id, calls |-> <<>>]
       IN
       /\ target_projects' = r.target
       /\ IF ~r.ok
          THEN /\ calls' = Append(calls, get(TRUE)) \o r.calls
               /\ Raise("ServerError")
               /\ UNCHANGED <<cur, workbooks, w>>
          ELSE IF out = "list_fails"
          THEN /\ calls' = Append(calls, get(TRUE)) \o r.calls
                            \o <<list(FALSE)>>
               /\ Raise("ServerError")
               /\ UNCHANGED <<cur, workbooks, w>>
          ELSE /\ calls' = Append(calls, get(TRUE)) \o r.calls
                            \o <<list(TRUE)>>
               /\ cur' = <<source_project_id, r.id>>
               /\ workbooks' = ProjectWorkbooks(source_project_id)
               /\ w' = 1
               /\ pc' = "workbooks"
               /\ UNCHANGED raised
    /\ UNCHANGED <<inputs, sessions, staging, resolution, todo, earlier,
                   target_workbooks, errors, reported, exit_status>>

\* The outcomes of lines 429-430 of main().
TargetProjectOutcomes(source_project_id) ==
    IF SourceProject(source_project_id) = <<>> THEN {"get_fails"}
    ELSE (IF faults THEN {"get_fails"} ELSE {})
         \cup EnsureOutcomes(target_projects,
                             SourceProject(source_project_id)[1].name, None)

\* Lines 426-431 of main(): --migrate-workbook without --target-project-id
\* takes the top-level target project named as the source project.
main_target_project ==
    /\ pc = "workbook"
    /\ LET item == SelectSeq(source_workbooks, LAMBDA b : b.id = args.item)
           known == IF item # <<>> THEN item
                    ELSE <<[id |-> args.item, name |-> "",
                            project_id |-> None]>>
           get(ok) == Call("get", "project", args.source_project_id, None, ok)
       IN
       IF args.target_project_id # None
       THEN /\ cur' = <<args.source_project_id, args.target_project_id>>
            /\ workbooks' = known
            /\ w' = 1
            /\ pc' = "workbooks"
            /\ UNCHANGED <<target_projects, calls, raised>>
       ELSE
       \E out \in TargetProjectOutcomes(args.source_project_id) :
       IF out = "get_fails"
       THEN /\ calls' = Append(calls, get(FALSE))
            /\ Raise("ServerError")
            /\ UNCHANGED <<target_projects, cur, workbooks, w>>
       ELSE
       LET r == ensure_project_exists(target_projects,
                    SourceProject(args.source_project_id)[1].name, None, out)
       IN
       /\ target_projects' = r.target
       /\ calls' = Append(calls, get(TRUE)) \o r.calls
       /\ IF r.ok
          THEN /\ cur' = <<args.source_project_id, r.id>>
               /\ workbooks' = known
               /\ w' = 1
               /\ pc' = "workbooks"
               /\ UNCHANGED raised
          ELSE /\ Raise("ServerError")
               /\ UNCHANGED <<cur, workbooks, w>>
    /\ UNCHANGED <<inputs, sessions, staging, resolution, todo, earlier,
                   target_workbooks, errors, reported, exit_status>>

(***************************************************************************)
(* migrate_workbook, lines 172-196: download to the staging directory,     *)
(* fetch the name, publish with Overwrite, remove the staged file.  A      *)
(* call that raises leaves the steps after it undone.                      *)
(***************************************************************************)
TargetIds == { target_projects[k].id : k \in 1..Len(target_projects) }

WorkbookOutcomes(workbook, target_project_id) ==
    IF workbook.project_id = None THEN {"download_fails"}
    ELSE (IF faults THEN {"download_fails", "get_fails", "publish_fails"}
          ELSE {})
         \cup (IF target_project_id \in TargetIds THEN {"ok"}
               ELSE {"publish_fails"})

\* The staged files when migrate_workbook returns or raises.
StagedAfter(files, workbook_id, out) ==
    IF out \in {"get_fails", "publish_fails"}
    THEN files \cup {workbook_id}
    ELSE files \ {workbook_id}

\* A download that goes on to the publish although it raised.
WorkbookCallsUnguarded(workbook, target_project_id, out) ==
    LET download(ok) == Call("download", workbook.name, workbook.id, None, ok)
        get(ok) == Call("get", "workbook", workbook.id, None, ok)
        publish(ok) == Call("publish", workbook.name, workbook.id,
                            target_project_id, ok)
    IN  CASE out = "download_fails" ->
               <<download(FALSE), get(TRUE), publish(FALSE)>>
          [] out = "get_fails" -> <<download(TRUE), get(FALSE)>>
          [] out = "publish_fails" ->
               <<download(TRUE), get(TRUE), publish(FALSE)>>
          [] OTHER -> <<download(TRUE), get(TRUE), publish(TRUE)>>

\* Lines 182, 185, 192: the requests migrate_workbook issues, in order; the
\* one that raises is the last one.
WorkbookCalls(workbook, target_project_id, out) ==
    LET download(ok) == Call("download", workbook.name, workbook.id, None, ok)
        get(ok) == Call("get", "workbook", workbook.id, None, ok)
        publish(ok) == Call("publish", workbook.name, workbook.id,
                            target_project_id, ok)
    IN  CASE out = "download_fails" -> <<download(FALSE)>>
          [] out = "get_fails" -> <<download(TRUE), get(FALSE)>>
          [] out = "publish_fails" ->
               <<download(TRUE), get(TRUE), publish(FALSE)>>
          [] OTHER -> <<download(TRUE), get(TRUE), publish(TRUE)>>

migrate_workbook ==
    /\ pc = "workbooks"
    /\ w <= Len(workbooks)
    /\ LET workbook == workbooks[w]
           target_project_id == cur[2]
       IN
       \E out \in WorkbookOutcomes(workbook, target_project_id) :
       /\ staged' = StagedAfter(staged, workbook.id, out)
       /\ calls' = calls \o WorkbookCalls(workbook, target_project_id, out)
       /\ IF out = "ok"
          THEN /\ target_workbooks' =
                      target_workbooks \cup
                      {[name |-> workbook.name, project_id |-> target_project_id]}
               /\ w' = w + 1
               /\ pc' = IF args.action = "migrate_workbook"
                        THEN "finally" ELSE pc
               /\ UNCHANGED raised
          ELSE /\ Raise(IF out = "get_fails" THEN "ServerError"
                        ELSE "TransferError")
               /\ UNCHANGED <<target_workbooks, w>>
    /\ UNCHANGED <<inputs, sessions, temp_dir, resolution, todo, cur,
                   workbooks, earlier, target_projects, errors, reported,
                   exit_status>>

\* Line 220: the loop over the workbooks is over, their number is logged.
migrate_project_end ==
    /\ pc = "workbooks"
    /\ w > Len(workbooks)
    /\ reported' = Append(reported, Len(workbooks))
    /\ IF args.action = "migrate_project"
       THEN pc' = "finally" /\ UNCHANGED todo
       ELSE pc' = "migrate" /\ todo' = Tail(todo)
    /\ UNCHANGED <<inputs, sessions, staging, resolution, cur, workbooks, w,
                   earlier, target_projects, target_workbooks, calls, errors,
                   raised, exit_status>>

\* Line 278: every item of project_map has been migrated.
migrate_site_end ==
    /\ pc = "migrate"
    /\ todo = <<>>
    /\ pc' = "finally"
    /\ UNCHANGED <<inputs, sessions, staging, resolution, content, earlier,
                   target_projects, target_workbooks, calls, errors, reported,
                   raised, exit_status>>

(***************************************************************************)
(* The finally clause of main(), lines 443-451.                            *)
(***************************************************************************)
SignOut(session) == IF session = "in" THEN "out" ELSE session

\* Lines 445-448: a listing action signs out of the source server only.
main_finally_listing ==
    /\ pc = "finally"
    /\ args.action \in Listing
    /\ IF source_server
       THEN \E out \in Outcomes :
            /\ calls' = Append(calls, Call("sign_out", "source", None, None,
                                            out = "ok"))
            /\ IF out = "ok"
               THEN /\ source_session' = SignOut(source_session)
                    /\ UNCHANGED raised
               ELSE /\ raised' = "SignOutError"
                    /\ UNCHANGED source_session
       ELSE UNCHANGED <<calls, source_session, raised>>
    /\ pc' = "done"
    /\ exit_status' = IF raised' = "none" THEN 0 ELSE 1
    /\ UNCHANGED <<inputs, source_server, target_server, target_session,
                   staging, resolution, content, earlier, target_projects,
                   target_workbooks, errors, reported>>

\* The places where cleanup (lines 280-295) can raise.
CleanupOutcomes ==
    {"ok"} \cup
    IF ~faults THEN {}
    ELSE (IF temp_dir THEN {"rmtree_fails"} ELSE {})
         \cup (IF source_server THEN {"source_fails"} ELSE {})
         \cup (IF target_server THEN {"target_fails"} ELSE {})

\* Lines 449-451: a migration action calls cleanup, which removes the
\* staging directory and signs out of the servers that are set.
cleanup ==
    /\ pc = "finally"
    /\ args.action \notin Listing
    /\ \E out \in CleanupOutcomes :
       LET source_out == source_server /\ out # "rmtree_fails"
           target_out == target_server /\ out \in {"ok", "target_fails"}
       IN
       /\ temp_dir' = (temp_dir /\ out = "rmtree_fails")
       /\ staged' = IF out = "rmtree_fails" THEN staged ELSE {}
       /\ source_session' = IF source_out /\ out # "source_fails"
                            THEN SignOut(source_session) ELSE source_session
       /\ target_session' = IF target_out /\ out # "target_fails"
                            THEN SignOut(target_session) ELSE target_session
       /\ calls' = calls
             \o (IF source_out
                 THEN <<Call("sign_out", "source", None, None,
                             out # "source_fails")>>
                 ELSE <<>>)
             \o (IF target_out
                 THEN <<Call("sign_out", "target", None, None,
                             out # "target_fails")>>
                 ELSE <<>>)
       /\ raised' = CASE out = "rmtree_fails" -> "OSError"
                      [] out \in {"source_fails", "target_fails"} ->
                           "SignOutError"
                      [] OTHER -> raised
    /\ pc' = "done"
    /\ exit_status' = IF raised' = "none" THEN 0 ELSE 1
    /\ UNCHANGED <<inputs, source_server, target_server, resolution, content,
                   earlier, target_projects, target_workbooks, errors,
                   reported>>

(***************************************************************************)
(* The states a run starts from.  The target site is empty or holds        *)
(* projects of an earlier migration or of its own users.                   *)
(***************************************************************************)
TargetProject(id, name, parent_id) ==
    [id |-> id, name |-> name, parent_id |-> parent_id]

TargetSeeds ==
    { <<>>,
      <<TargetProject(101, "Eng", None)>>,
      <<TargetProject(101, "Data", None), TargetProject(102, "Eng", 101)>> }

NoArgs(action) ==
    [action |-> action, source_cred |-> TRUE, target_cred |-> TRUE,
     item |-> None, source_project_id |-> None, target_project_id |-> None]

\* The state after TableauMigrator.__init__ (lines 26-58), before the try
\* block of main().
Constructed(a, f, sp, sw, tp) ==
    /\ args = a
    /\ faults = f
    /\ source_projects = sp
    /\ source_workbooks = sw
    /\ target_projects = tp
    /\ target_workbooks = {}
    /\ source_server = FALSE
    /\ target_server = FALSE
    /\ source_session = "none"
    /\ target_session = "none"
    /\ temp_dir = TRUE
    /\ staged = {}
    /\ pc = "main"
    /\ project_map = <<>>
    /\ remaining_projects = <<>>
    /\ projects_handled = <<>>
    /\ i = 1
    /\ passes = 0
    /\ todo = <<>>
    /\ cur = <<None, None>>
    /\ workbooks = <<>>
    /\ w = 1
    /\ calls = <<>>
    /\ errors = <<>>
    /\ reported = <<>>
    /\ raised = "none"
    /\ exit_status = 0
    /\ run = "first"
    /\ prev_map = <<>>
    /\ prev_unresolved = <<>>
    /\ invocations = <<>>

(***************************************************************************)
(* main() with every action of the command line, against servers whose     *)
(* calls may raise.                                                        *)
(***************************************************************************)
MainArgs(sp, sw) ==
    { [NoArgs(a) EXCEPT !.source_cred = c] : a \in Listing, c \in BOOLEAN }
    \cup { [NoArgs("list_workbooks") EXCEPT !.source_project_id = 1] }
    \cup { [NoArgs(a) EXCEPT !.source_cred = c, !.target_cred = ~c,
                             !.item = 1, !.source_project_id = 1] :
             a \in Actions \ Listing, c \in BOOLEAN }
    \cup { NoArgs("migrate_site") }
    \cup { [NoArgs("migrate_project") EXCEPT !.item = p,
                                             !.target_project_id = t] :
             p \in 1..Len(sp), t \in {None, 101} }
    \cup { [NoArgs("migrate_workbook") EXCEPT !.item = b,
                                              !.source_project_id = s,
                                              !.target_project_id = t] :
             b \in { 9 + k : k \in 1..(IF sw = <<>> THEN 1 ELSE Len(sw)) },
             s \in {None, 1}, t \in {None, 101} }

Init ==
    \E sp \in NamedSites(MainProjects), tp \in TargetSeeds :
        \E sw \in WorkbookLists(Len(sp), MainWorkbooks) :
            \E a \in MainArgs(sp, sw) :
                Constructed(a, TRUE, sp, sw, tp)

NextSite ==
    \/ main_migrate_site
    \/ connect_to_source
    \/ connect_to_target
    \/ migrate_site_list_projects
    \/ migrate_site_root_pass
    \/ migrate_site_children
    \/ migrate_site_pass_begin
    \/ migrate_site_pass_step
    \/ migrate_site_pass_end
    \/ migrate_site_content
    \/ migrate_project
    \/ migrate_workbook
    \/ migrate_project_end
    \/ migrate_site_end
    \/ cleanup

Next ==
    \/ NextSite
    \/ main_list
    \/ main_migrate_workbook
    \/ main_migrate_project
    \/ main_target_project
    \/ list_source
    \/ main_finally_listing

Spec == Init /\ [][Next]_vars

(***************************************************************************)
(* main() with --migrate-site and usable credentials, against servers      *)
(* whose calls may raise.                                                  *)
(***************************************************************************)
InitSite ==
    \E sp \in NamedSites(SiteProjects), tp \in TargetSeeds :
        \E sw \in WorkbookLists(Len(sp), MaxWorkbooks) :
            Constructed(NoArgs("migrate_site"), TRUE, sp, sw, tp)

SpecSite == InitSite /\ [][NextSite]_vars

(***************************************************************************)
(* The hierarchy resolution of migrate_site on its own (lines 244-272),    *)
(* run twice against the same source and the target the first run left,    *)
(* with servers that answer every call.                                    *)
(***************************************************************************)
Resolving(sp, tp) ==
    /\ args = NoArgs("migrate_site")
    /\ faults = FALSE
    /\ source_projects = sp
    /\ source_workbooks = <<>>
    /\ target_projects = tp
    /\ target_workbooks = {}
    /\ source_server = TRUE
    /\ target_server = TRUE
    /\ source_session = "in"
    /\ target_session = "in"
    /\ temp_dir = TRUE
    /\ staged = {}
    /\ pc = "root_pass"
    /\ project_map = <<>>
    /\ remaining_projects = <<>>
    /\ projects_handled = <<>>
    /\ i = 1
    /\ passes = 0
    /\ todo = <<>>
    /\ cur = <<None, None>>
    /\ workbooks = <<>>
    /\ w = 1
    /\ calls = <<>>
    /\ errors = <<>>
    /\ reported = <<>>
    /\ raised = "none"
    /\ exit_status = 0
    /\ run = "first"
    /\ prev_map = <<>>
    /\ prev_unresolved = <<>>

InitResolve ==
    \E sp \in SourceSites(MaxProjects), tp \in TargetSeeds :
        Resolving(sp, tp) /\ invocations = <<>>

\* The resolution is run again: lines 244-247 with a new project_map.
Rerun ==
    /\ pc = "resolved"
    /\ run = "first"
    /\ run' = "second"
    /\ prev_map' = project_map
    /\ prev_unresolved' = remaining_projects
    /\ project_map' = <<>>
    /\ remaining_projects' = <<>>
    /\ projects_handled' = <<>>
    /\ i' = 1
    /\ passes' = 0
    /\ calls' = <<>>
    /\ errors' = <<>>
    /\ pc' = "root_pass"
    /\ UNCHANGED <<inputs, sessions, staging, content, target_projects,
                   target_workbooks, reported, raised, exit_status,
                   invocations>>

NextResolve ==
    \/ migrate_site_root_pass
    \/ migrate_site_children
    \/ migrate_site_pass_begin
    \/ migrate_site_pass_step
    \/ migrate_site_pass_end
    \/ Rerun

SpecResolve == InitResolve /\ [][NextResolve]_vars

(***************************************************************************)
(* Properties of the hierarchy resolution.                                 *)
(***************************************************************************)
ParentOf(id) == source_projects[id].parent_id

ProjectIds == 1..Len(source_projects)

Children == { id \in ProjectIds : ParentOf(id) # None }

RECURSIVE Closure(_, _)
Closure(R, n) ==
    IF n = 0 THEN R
    ELSE Closure(R \cup { id \in ProjectIds : ParentOf(id) \in R }, n - 1)

\* The projects whose chain of parents ends at a top-level project.
RootReachable ==
    Closure({ id \in ProjectIds : ParentOf(id) = None }, Len(source_projects))

CreateCalls == { k \in 1..Len(calls) : calls[k].op = "create" }

Resolved == pc = "resolved"

\* C1: a second resolution against the target the first one left records
\* the same mapping as the first and issues no project creation.
IdempotentHierarchyCreation ==
    run = "second" =>
        /\ CreateCalls = {}
        /\ Resolved => project_map = prev_map

IdempotentWitness ==
    /\ run = "second"
    /\ Resolved
    /\ Len(project_map) >= 2
    /\ \E k \in 1..Len(project_map) : project_map[k][2] > 102
    /\ Children \cap MapKeys(project_map) # {}

\* The lookup that precedes the history entry k.
LookupBefore(k) ==
    CHOOSE l \in 0..(k - 1) :
        /\ l > 0 => calls[l].op = "lookup"
        /\ \A m \in (l + 1)..(k - 1) : calls[m].op # "lookup"

\* C2: when the target project of a child is looked up, the entry of its
\* parent is in project_map, and the child's entry is recorded after it.
ParentBeforeChild ==
    /\ \A k \in 1..Len(calls) :
          (calls[k].op = "record" /\ ParentOf(calls[k].id) # None) =>
              \E j \in 1..(k - 1) :
                  /\ calls[j].op = "record"
                  /\ calls[j].id = ParentOf(calls[k].id)
                  /\ j < LookupBefore(k)
    /\ \A k \in 1..Len(project_map) :
          ParentOf(project_map[k][1]) # None =>
              \E j \in 1..(k - 1) :
                  project_map[j][1] = ParentOf(project_map[k][1])

ParentBeforeChildWitness ==
    /\ Resolved
    /\ \E id \in MapKeys(project_map) :
          /\ ParentOf(id) > id
          /\ ParentOf(ParentOf(id)) # None

Cycles ==
    { c \in ProjectIds \X ProjectIds :
        c[1] # c[2] /\ ParentOf(c[1]) = c[2] /\ ParentOf(c[2]) = c[1] }

Remaining == { remaining_projects[k].id : k \in 1..Len(remaining_projects) }

ResolutionCompleteness ==
    Resolved => MapKeys(project_map) = RootReachable

ResolutionCompletenessWitness ==
    /\ Resolved
    /\ \E id \in MapKeys(project_map) : ParentOf(id) # None
    /\ \E id \in ProjectIds : id \notin MapKeys(project_map)

SameSignature(a, b) ==
    /\ a # b
    /\ source_projects[a].name = source_projects[b].name
    /\ \/ ParentOf(a) = None /\ ParentOf(b) = None
       \/ /\ ParentOf(a) # None
          /\ ParentOf(b) # None
          /\ MapHas(project_map, ParentOf(a))
          /\ MapHas(project_map, ParentOf(b))
          /\ MapGet(project_map, ParentOf(a)) = MapGet(project_map, ParentOf(b))

\* C6: two source projects of one name that are both top-level, or whose
\* parents map to one target project, are both mapped, to one target
\* project, and at most one project is created for a (name, parent).
SameSignatureCollapsing ==
    /\ \A a, b \in MapKeys(project_map) :
          SameSignature(a, b) =>
              MapGet(project_map, a) = MapGet(project_map, b)
    /\ \A k, l \in CreateCalls :
          (calls[k].name = calls[l].name /\ calls[k].arg = calls[l].arg) =>
              k = l
    /\ Resolved =>
          \A a, b \in ProjectIds :
              (SameSignature(a, b) /\ MapHas(project_map, a)) =>
                  MapHas(project_map, b)

SameSignatureWitness ==
    /\ Resolved
    /\ run = "first"
    /\ \E a, b \in MapKeys(project_map) :
          /\ SameSignature(a, b)
          /\ ParentOf(a) # None
          /\ MapGet(project_map, a) = MapGet(project_map, b)
          /\ \E k \in CreateCalls : calls[k].id = MapGet(project_map, a)

(***************************************************************************)
(* Properties of a site migration and of main().                           *)
(***************************************************************************)
Ops(ops) == { k \in 1..Len(calls) : calls[k].op \in ops }

\* C5: every target id in project_map is the id of a project the target
\* holds, and an entry is written only after the lookup found that project
\* or the create of it returned.
CreateThenRecord ==
    /\ MapValues(project_map) \subseteq TargetIds
    /\ \A k \in Ops({"record"}) :
          /\ k > 1
          /\ calls[k - 1].ok
          /\ \/ calls[k - 1].op = "lookup"
             \/ calls[k - 1].op = "create" /\ calls[k - 1].id = calls[k].arg
          /\ calls[k].arg \in TargetIds

CreateThenRecordWitness ==
    /\ pc = "migrate"
    /\ Len(project_map) >= 2
    /\ \E k \in Ops({"create"}) : calls[k].ok /\ calls[k].arg # None
    /\ \E k \in Ops({"record"}) : calls[k - 1].op = "lookup"

\* C7: in a run of migrate_site every project lookup and creation precedes
\* the first workbook download, and every publish names a project the
\* target holds.
ResolveBeforeTransfer ==
    /\ \A j \in Ops({"download", "publish"}) :
          \A k \in Ops({"lookup", "create"}) : k < j
    /\ \A k \in Ops({"publish"}) : calls[k].arg \in TargetIds
    /\ Ops({"download", "publish"}) # {} =>
          pc \in {"migrate", "workbooks", "finally", "done"}

ResolveBeforeTransferWitness ==
    /\ Cardinality({ k \in Ops({"publish"}) : calls[k].ok }) >= 2
    /\ Ops({"create"}) # {}
    /\ Len(project_map) >= 2
    /\ \E k \in Ops({"publish"}) : calls[k].arg # project_map[1][2]

\* The workbooks of the mapped source projects.
MappedWorkbooks ==
    { source_workbooks[k].id : k \in
        { n \in 1..Len(source_workbooks) :
            MapHas(project_map, source_workbooks[n].project_id) } }

Attempted == { calls[k].id : k \in Ops({"download"}) }

\* C8, as claimed: a run of migrate_site in which the download or the
\* upload of a workbook failed has still attempted every other workbook of
\* the mapped projects.
ContentIsolation ==
    (pc = "done" /\ raised = "TransferError") =>
        MappedWorkbooks \subseteq Attempted

\* C9, as claimed: when main() has finished, whichever action ran, the
\* staging directory made by the constructor is gone (unless its removal
\* itself failed).
StagingRootCleanup ==
    (pc = "done" /\ raised # "OSError") => ~temp_dir

\* C10, as claimed: when migrate_workbook has returned or raised, no staged
\* workbook file is left in the staging directory.
StagedFileReleased == staged = {}

\* C11: a publish of a workbook is issued only right after the fetch of
\* that workbook's name succeeded, itself right after the download of the
\* same workbook succeeded; once the download of a workbook has failed, no
\* publish of that workbook follows.
DownloadBeforeUpload ==
    /\ \A k \in Ops({"publish"}) :
          /\ k > 2
          /\ calls[k - 1].op = "get" /\ calls[k - 1].id = calls[k].id
          /\ calls[k - 1].ok
          /\ calls[k - 2].op = "download" /\ calls[k - 2].id = calls[k].id
          /\ calls[k - 2].ok
    /\ \A k \in Ops({"download"}) :
          ~calls[k].ok =>
              \A j \in Ops({"publish"}) : j > k => calls[j].id # calls[k].id

\* A download failed after another workbook had been published.
DownloadBeforeUploadWitness ==
    /\ pc = "done"
    /\ \E k \in Ops({"download"}) :
          /\ ~calls[k].ok
          /\ k = Len(calls) - 2
          /\ \E j \in Ops({"publish"}) : j < k /\ calls[j].ok

\* The source projects whose creation the target rejected, with their
\* descendants.
FailedSubtrees ==
    Closure({ id \in ProjectIds :
                \E k \in CreateCalls :
                    ~calls[k].ok /\ calls[k].name = source_projects[id].name },
            Len(source_projects))

\* C12, as claimed: when the target rejected the creation of a project, that
\* project and its descendants have no entry in project_map and nothing was
\* created under it, and the run went on: every other project reachable
\* from a top-level one is mapped and its workbooks were attempted.
CreationFailureIsLocal ==
    (pc = "done" /\ \E k \in CreateCalls : ~calls[k].ok) =>
        /\ \A id \in FailedSubtrees : ~MapHas(project_map, id)
        /\ \A id \in RootReachable \ FailedSubtrees :
              /\ MapHas(project_map, id)
              /\ \A k \in 1..Len(source_workbooks) :
                    source_workbooks[k].project_id = id =>
                        source_workbooks[k].id \in Attempted

SignedIn(server) ==
    \E k \in Ops({"sign_in"}) : calls[k].name = server /\ calls[k].ok

SignOutIssued(server) ==
    \E k \in Ops({"sign_out"}) : calls[k].name = server

\* C13, as claimed: when main() has finished, a sign-out was issued for
\* every session the run signed in: after a migration action for the source
\* and the target session, whatever failed in the cleanup, and after a
\* listing action for the source session only.
SessionsSignedOut ==
    pc = "done" =>
        /\ SignedIn("source") => SignOutIssued("source")
        /\ args.action \notin Listing =>
              (SignedIn("target") => SignOutIssued("target"))
        /\ args.action \in Listing => ~SignOutIssued("target")

\* A precondition of the action is unmet: a credential is missing, a
\* sign-in was rejected, or --migrate-workbook has no --source-project-id.
PreconditionUnmet ==
    \/ ~args.source_cred
    \/ args.action \notin Listing /\ ~args.target_cred
    \/ \E k \in Ops({"sign_in"}) : ~calls[k].ok
    \/ args.action = "migrate_workbook" /\ args.source_project_id = None

\* C14: a run with an unmet precondition issues no project creation and no
\* workbook publish (nor any other request than sign-in and sign-out) and
\* leaves the target's content alone; without --source-project-id,
\* --migrate-workbook ends with a non-zero exit status.
PreconditionBeforeMutation ==
    PreconditionUnmet =>
        /\ Ops({"create", "publish"}) = {}
        /\ Ops({"list", "lookup", "record", "get", "download"}) = {}
        /\ target_workbooks = {}
        /\ (pc = "done" /\ args.action = "migrate_workbook"
               /\ args.source_project_id = None) => exit_status # 0

\* --migrate-workbook without --source-project-id has ended, with a target
\* project the workbook could have been published to.
PreconditionWitness ==
    /\ pc = "done"
    /\ args.action = "migrate_workbook"
    /\ args.source_project_id = None
    /\ args.target_project_id \in TargetIds
    /\ \E k \in 1..Len(source_workbooks) : source_workbooks[k].id = args.item
    /\ exit_status = 1

(***************************************************************************)
(* main() with --migrate-project (lines 435-438) and usable credentials,    *)
(* with and without --target-project-id, against servers whose calls may    *)
(* raise.                                                                   *)
(***************************************************************************)
InitProject ==
    \E sp \in NamedSites(SiteProjects), tp \in TargetSeeds :
        \E sw \in WorkbookLists(Len(sp), MaxWorkbooks) :
            \E p \in 1..Len(sp), t \in {None, NewTargetId(<<>>)} :
                Constructed([NoArgs("migrate_project") EXCEPT
                                 !.item = p, !.target_project_id = t],
                            TRUE, sp, sw, tp)

NextMigrateProject ==
    \/ main_migrate_project
    \/ connect_to_source
    \/ connect_to_target
    \/ migrate_project
    \/ migrate_workbook
    \/ migrate_project_end
    \/ cleanup

SpecProject == InitProject /\ [][NextMigrateProject]_vars

\* The positions in source_workbooks of the workbooks the project of
\* --migrate-project owns.
Owned ==
    { k \in 1..Len(source_workbooks) :
        source_workbooks[k].project_id = args.item }

\* C15: migrate_project called with a target project id issues no lookup
\* and no create; called without, it issues one lookup, and at most one
\* create, with the name and the parent_id of the source project.  When it
\* returns, each workbook the source project owns, and no other, has been
\* downloaded once and published once into the target project resolved, and
\* the number reported is the number of these workbooks.
MigrateProjectContract ==
    LET given == args.target_project_id # None
        source_project == source_projects[args.item]
    IN
    /\ given => Ops({"lookup", "create"}) = {}
    /\ ~given =>
          /\ Cardinality(Ops({"lookup"})) <= 1
          /\ Cardinality(Ops({"create"})) <= 1
          /\ \A k \in Ops({"lookup", "create"}) :
                /\ calls[k].name = source_project.name
                /\ calls[k].arg = source_project.parent_id
    /\ (pc = "finally" /\ raised = "none") =>
          /\ ~given =>
                /\ Cardinality(Ops({"lookup"})) = 1
                /\ \E k \in 1..Len(target_projects) :
                      target_projects[k] =
                          [id |-> cur[2], name |-> source_project.name,
                           parent_id |-> source_project.parent_id]
                /\ \A k \in Ops({"create"}) : calls[k].id = cur[2]
          /\ given => cur[2] = args.target_project_id
          /\ \A b \in Owned :
                /\ Cardinality({ k \in Ops({"download"}) :
                        calls[k].id = source_workbooks[b].id }) = 1
                /\ Cardinality({ k \in Ops({"publish"}) :
                        calls[k].id = source_workbooks[b].id }) = 1
                /\ [name |-> source_workbooks[b].name, project_id |-> cur[2]]
                       \in target_workbooks
          /\ \A k \in Ops({"download", "publish"}) :
                /\ calls[k].ok
                /\ \E b \in Owned : source_workbooks[b].id = calls[k].id
                /\ calls[k].op = "publish" => calls[k].arg = cur[2]
          /\ Cardinality(target_workbooks) = Cardinality(Owned)
          /\ reported = <<Cardinality(Owned)>>

\* migrate_project without a target project id has returned: it created the
\* target project of a child project and transferred its workbook, and left
\* the workbook of another project alone.
MigrateProjectWitness ==
    /\ pc = "finally" /\ raised = "none"
    /\ args.target_project_id = None
    /\ source_projects[args.item].parent_id # None
    /\ Ops({"create"}) # {}
    /\ Owned # {}
    /\ Cardinality(Owned) < Len(source_workbooks)

\* The source of the scenario: Eng (id 1, top-level), Data (id 2, child of
\* Eng) and the workbook Dash (id 10) of Data; every project the target
\* holds was created by this run, so the target was empty at the start.
EndToEndScenario ==
    /\ source_projects =
          <<[id |-> 1, name |-> "Eng", parent_id |-> None],
            [id |-> 2, name |-> "Data", parent_id |-> 1]>>
    /\ source_workbooks = <<[id |-> 10, name |-> "Dash", project_id |-> 2]>>
    /\ \A k \in 1..Len(target_projects) :
          \E c \in CreateCalls :
              calls[c].ok /\ calls[c].id = target_projects[k].id

\* C16: migrate_site on the scenario, with no failure, creates Eng without
\* parent, then Data under the id Eng got, then downloads and publishes
\* Dash into the id Data got; project_map is {1: Eng's id, 2: Data's id}
\* and one workbook is reported migrated over the run.
EndToEnd ==
    (EndToEndScenario /\ pc = "finally" /\ raised = "none") =>
        LET newEngId == target_projects[1].id
            newDataId == target_projects[2].id
        IN
        /\ target_projects =
              <<[id |-> newEngId, name |-> "Eng", parent_id |-> None],
                [id |-> newDataId, name |-> "Data", parent_id |-> newEngId]>>
        /\ newEngId # newDataId
        /\ SelectSeq(calls,
                     LAMBDA c : c.op \in {"create", "download", "publish"}) =
              <<Call("create", "Eng", newEngId, None, TRUE),
                Call("create", "Data", newDataId, newEngId, TRUE),
                Call("download", "Dash", 10, None, TRUE),
                Call("publish", "Dash", 10, newDataId, TRUE)>>
        /\ project_map = <<<<1, newEngId>>, <<2, newDataId>>>>
        /\ target_workbooks = {[name |-> "Dash", project_id |-> newDataId]}
        /\ reported = <<0, 1>>

\* migrate_site has returned on the scenario.
EndToEndWitness ==
    /\ EndToEndScenario
    /\ pc = "finally"
    /\ raised = "none"
    /\ Len(target_projects) = 2

(***************************************************************************)
(* The hierarchy resolution of migrate_site (lines 244-272) on forests of   *)
(* up to LevelProjects projects with distinct names, against an empty       *)
(* target whose calls succeed.                                              *)
(***************************************************************************)
LevelProjects == 4

InitLevels ==
    \E sp \in NamedSites(LevelProjects) :
        Resolving(sp, <<>>) /\ invocations = <<>>

NextLevels ==
    \/ migrate_site_root_pass
    \/ migrate_site_children
    \/ migrate_site_pass_begin
    \/ migrate_site_pass_step
    \/ migrate_site_pass_end

SpecLevels == InitLevels /\ [][NextLevels]_vars

\* The number of parents between a project and its top-level ancestor.
RECURSIVE Depth(_)
Depth(id) == IF ParentOf(id) = None THEN 0 ELSE 1 + Depth(ParentOf(id))

ProjectNamed(name) ==
    CHOOSE id \in ProjectIds : source_projects[id].name = name

RecordedBefore(id, k) ==
    \E j \in Ops({"record"}) : j < k /\ calls[j].id = id

\* C17, as claimed: when a project of depth d+1 is looked up or created,
\* every project of depth d that a top-level project reaches is mapped.
LevelOrder ==
    \A k \in Ops({"lookup", "create"}) :
        LET N == ProjectNamed(calls[k].name) IN
        \A M \in RootReachable :
            Depth(M) + 1 = Depth(N) => RecordedBefore(M, k)

\* C17, as the code has it: when a child project is looked up or created,
\* every top-level project and its own parent are mapped; when p passes of
\* the pending loop are over, every project of depth p or less that a
\* top-level project reaches is mapped.
LevelByPass ==
    /\ \A k \in Ops({"lookup", "create"}) :
          LET N == ProjectNamed(calls[k].name) IN
          ParentOf(N) # None =>
              /\ RecordedBefore(ParentOf(N), k)
              /\ \A M \in ProjectIds :
                    ParentOf(M) = None => RecordedBefore(M, k)
    /\ pc # "root_pass" =>
          \A M \in RootReachable :
              Depth(M) + (IF pc = "pass" THEN 1 ELSE 0) <= passes =>
                  MapHas(project_map, M)

\* A project of depth 2 was mapped in the first pass, before a project of
\* depth 1 later in the list.
LevelByPassWitness ==
    /\ pc = "pass"
    /\ passes = 1
    /\ \E N \in MapKeys(project_map), M \in RootReachable :
          /\ Depth(N) = 2
          /\ Depth(M) = 1
          /\ ~MapHas(project_map, M)

\* C18: the pending loop runs at most one pass more than there are pending
\* projects, whatever the parent references (self-parenting, cycles,
\* parents absent from the input): a pass visits each pending project once,
\* and every pass that does not end the loop has removed at least one
\* pending project.
LoopTermination ==
    /\ passes <= Cardinality(Children) + 1
    /\ i <= Len(source_projects) + 1
    /\ pc = "pass" =>
          /\ i <= Len(remaining_projects) + 1
          /\ Len(remaining_projects) + passes <= Cardinality(Children) + 1
    /\ pc = "pending" =>
          Len(remaining_projects) + passes <= Cardinality(Children)
    /\ (Resolved /\ errors = <<>>) => remaining_projects = <<>>

\* The loop has ended on a pass that handled nothing, after a pass that
\* handled a project, with a self-parenting project pending.
LoopTerminationWitness ==
    /\ Resolved
    /\ passes >= 2
    /\ errors # <<>>
    /\ \E id \in Remaining : ParentOf(id) = id

\* The project of the target with the given id.
TargetProjectById(id) ==
    SelectSeq(target_projects, LAMBDA p : p.id = id)

\* C19: the target project a source project N is mapped to has the name of
\* N; it has no parent when N is top-level, and otherwise its parent is the
\* target project the parent of N is mapped to.
ShapePreserved ==
    \A N \in MapKeys(project_map) :
        LET found == TargetProjectById(MapGet(project_map, N)) IN
        /\ Len(found) = 1
        /\ found[1].name = source_projects[N].name
        /\ ParentOf(N) = None => found[1].parent_id = None
        /\ ParentOf(N) # None =>
              /\ MapHas(project_map, ParentOf(N))
              /\ found[1].parent_id = MapGet(project_map, ParentOf(N))

\* A resolution has mapped a project two levels below a top-level one, to
\* a project created under the target of its parent.
ShapePreservedWitness ==
    /\ Resolved
    /\ \E N \in MapKeys(project_map) :
          /\ ParentOf(N) # None
          /\ ParentOf(ParentOf(N)) # None
          /\ ParentOf(ParentOf(ParentOf(N))) = None
          /\ \E k \in CreateCalls : calls[k].id = MapGet(project_map, N)

(***************************************************************************)
(* ensure_project_exists (lines 147-170) called by several runs against    *)
(* the same target at once.  The request that lists the matching projects  *)
(* (line 155) and the request that creates the project (line 168) are two  *)
(* calls to the server with nothing held between them, so the requests of  *)
(* the invocations interleave.  An invocation keeps its arguments, its     *)
(* position, what its lookup found and the id it returns.                  *)
(***************************************************************************)
Invocations == 2

Signatures == Names \X {None, NewTargetId(<<>>)}

Invoked(sig) ==
    [pc |-> "lookup", project_name |-> sig[1], parent_id |-> sig[2],
     existing |-> None, id |-> None]

InitRace ==
    \E tp \in TargetSeeds : \E sigs \in [1..Invocations -> Signatures] :
        /\ Resolving(<<>>, tp)
        /\ invocations = [p \in 1..Invocations |-> Invoked(sigs[p])]

\* Lines 150-164: the lookup; a match is returned at once.
ensure_lookup(p) ==
    /\ invocations[p].pc = "lookup"
    /\ LET self == invocations[p]
           existing == FindExisting(target_projects, self.project_name,
                                    self.parent_id)
       IN
       /\ invocations' =
              [invocations EXCEPT ![p].existing = existing,
                                  ![p].id = existing,
                                  ![p].pc = IF existing # None THEN "done"
                                            ELSE "create"]
       /\ calls' = Append(calls, Call("lookup", self.project_name, None,
                                      self.parent_id, TRUE))
    /\ UNCHANGED <<inputs, sessions, staging, resolution, content, run,
                   prev_map, prev_unresolved, pc, target_projects,
                   target_workbooks, errors, reported, raised, exit_status>>

\* A create that first looks again for a project of the signature.
CreateNeededChecked(tp, project_name, parent_id) ==
    FindExisting(tp, project_name, parent_id) = None

\* Lines 166-168: with no match returned the project is created, on the
\* word of the lookup.
CreateNeeded(tp, project_name, parent_id) == TRUE

\* Lines 166-170: the create, and the return of the new project.
ensure_create(p) ==
    /\ invocations[p].pc = "create"
    /\ LET self == invocations[p] IN
       IF CreateNeeded(target_projects, self.project_name, self.parent_id)
       THEN /\ target_projects' =
                   Append(target_projects,
                          [id |-> NewTargetId(target_projects),
                           name |-> self.project_name,
                           parent_id |-> self.parent_id])
            /\ calls' = Append(calls,
                               Call("create", self.project_name,
                                    NewTargetId(target_projects),
                                    self.parent_id, TRUE))
            /\ invocations' =
                   [invocations EXCEPT ![p].id = NewTargetId(target_projects),
                                       ![p].pc = "done"]
       ELSE /\ invocations' =
                   [invocations EXCEPT
                       ![p].id = FindExisting(target_projects,
                                              self.project_name,
                                              self.parent_id),
                       ![p].pc = "done"]
            /\ UNCHANGED <<target_projects, calls>>
    /\ UNCHANGED <<inputs, sessions, staging, resolution, content, run,
                   prev_map, prev_unresolved, pc, target_workbooks, errors,
                   reported, raised, exit_status>>

NextRace ==
    \/ \E p \in 1..Len(invocations) : ensure_lookup(p)
    \/ \E p \in 1..Len(invocations) : ensure_create(p)

SpecRace == InitRace /\ [][NextRace]_vars

\* The projects of the target with the signature of an invocation.
WithSignature(self) ==
    { k \in 1..Len(target_projects) :
        /\ target_projects[k].name = self.project_name
        /\ target_projects[k].parent_id = self.parent_id }

\* C20: nothing serializes the lookup and the create of concurrent calls of
\* ensure_project_exists: an invocation whose lookup found no match creates
\* a project, whatever the others did since, so two invocations with the
\* same (name, parent) whose lookups both found no match leave two projects
\* of that signature on the target.
NoCreationLock ==
    \A p, q \in 1..Len(invocations) :
        LET a == invocations[p]
            b == invocations[q]
        IN
        (a.pc = "done" /\ a.existing = None) =>
            /\ \E k \in CreateCalls : calls[k].id = a.id
            /\ \E k \in WithSignature(a) : target_projects[k].id = a.id
            /\ (/\ p # q
                /\ b.pc = "done" /\ b.existing = None
                /\ b.project_name = a.project_name
                /\ b.parent_id = a.parent_id) =>
                   /\ a.id # b.id
                   /\ Cardinality(WithSignature(a)) >= 2

\* Two invocations with the same signature have both found no match and
\* both created: the target holds two projects of that signature.
NoCreationLockWitness ==
    \E p, q \in 1..Len(invocations) :
        /\ p # q
        /\ invocations[p].pc = "done" /\ invocations[q].pc = "done"
        /\ invocations[p].project_name = invocations[q].project_name
        /\ invocations[p].parent_id = invocations[q].parent_id
        /\ invocations[p].existing = None /\ invocations[q].existing = None
        /\ Cardinality(WithSignature(invocations[p])) = 2

\* The source projects migrate_project was called for, in call order: each
\* call starts with the get_by_id of line 206.
MigratedProjects ==
    LET gets == SelectSeq(calls, LAMBDA c : c.op = "get" /\ c.name = "project")
    IN  [k \in 1..Len(gets) |-> gets[k].id]

\* The project that owns the workbook of the given id.
OwnerOf(workbook_id) ==
    LET b == CHOOSE k \in 1..Len(source_workbooks) :
                 source_workbooks[k].id = workbook_id
    IN  source_workbooks[b].project_id

TransfersOf(op, workbook_id) ==
    { k \in Ops({op}) : calls[k].id = workbook_id }

\* C21: migrate_site calls migrate_project for mapped projects only and at
\* most once for each; a workbook that is downloaded or published belongs
\* to a mapped project and goes to the target project of its owner.  When
\* the run has returned without a failure, migrate_project was called once
\* for every key of project_map, in the order of the dict, every workbook
\* of a mapped project was downloaded once and published once, and no
\* workbook of an unmapped project was downloaded or published.
ContentCoversMapped ==
    /\ \A k \in 1..Len(MigratedProjects) :
          /\ k <= Len(project_map)
          /\ MigratedProjects[k] = project_map[k][1]
    /\ \A k \in Ops({"download", "publish"}) :
          /\ MapHas(project_map, OwnerOf(calls[k].id))
          /\ Cardinality(TransfersOf(calls[k].op, calls[k].id)) = 1
          /\ calls[k].op = "publish" =>
                calls[k].arg = MapGet(project_map, OwnerOf(calls[k].id))
    /\ (pc = "finally" /\ raised = "none") =>
          /\ Len(MigratedProjects) = Len(project_map)
          /\ Len(reported) = Len(project_map)
          /\ \A b \in 1..Len(source_workbooks) :
                LET workbook == source_workbooks[b] IN
                IF MapHas(project_map, workbook.project_id)
                THEN /\ \E k \in TransfersOf("download", workbook.id) :
                           calls[k].ok
                     /\ \E k \in TransfersOf("publish", workbook.id) :
                           calls[k].ok
                ELSE /\ TransfersOf("download", workbook.id) = {}
                     /\ TransfersOf("publish", workbook.id) = {}

\* migrate_site has returned: the workbook of a mapped project was
\* published, the workbook of a project left unresolved was not touched.
ContentCoversMappedWitness ==
    /\ pc = "finally" /\ raised = "none"
    /\ errors # <<>>
    /\ \E a, b \in 1..Len(source_workbooks) :
          /\ MapHas(project_map, source_workbooks[a].project_id)
          /\ TransfersOf("publish", source_workbooks[a].id) # {}
          /\ ~MapHas(project_map, source_workbooks[b].project_id)
          /\ TransfersOf("download", source_workbooks[b].id) = {}

\* C22, as claimed: a sign-out of the source or the target session is
\* issued only after the sign-in of that session succeeded; a rejected
\* sign-in is not followed by a sign-out of that session.
SignOutFollowsSignIn ==
    \A k \in Ops({"sign_out"}) :
        \E j \in Ops({"sign_in"}) :
            /\ j < k
            /\ calls[j].name = calls[k].name
            /\ calls[j].ok

====
